---- MODULE Spec2Model ----
(***************************************************************************)
(* Model of awsutils: the S3 helpers of awsutils/filesystem.py and the SQS *)
(* helpers of awsutils/sqs.py.                                             *)
(*                                                                         *)
(* One client calls one helper at a time (fn), the helper runs one SDK     *)
(* call per step (pc), every SDK call is recorded in calls with the        *)
(* outcome the remote service chose for it, and the finished call leaves   *)
(* what reaches the caller in result.                                      *)
(*                                                                         *)
(* Python values are written as strings ("True", "False", "None", ...), so *)
(* that the truth value of None in a condition is computed, not assumed.   *)
(* Exceptions are written by class name; exc = "none" is a normal return.  *)
(***************************************************************************)
EXTENDS Integers, Sequences, FiniteSets, TLC

VARIABLES
    fn,           \* the helper the client is calling, "idle" between calls
    pc,           \* position inside the helper
    source_flag,  \* locals of download / move
    key_flag,     \* local of download / move / move_core
    target_flag,  \* local of move
    upload_flag,  \* local of move_core
    delete_flag,  \* local of move_core
    attempt,      \* attempt number of the retry wrapper of fn
    up_attempt,   \* attempt number of the retry wrapper of s3_upload
    result,       \* what reached the caller: [exc, val]
    response,     \* local response / del_response / purge_resp of sqs.py
    calls,        \* the SDK calls made since the helper was called
    log,          \* levels of the records the helper sent to logger
    src_obj,      \* (source_bucket, source_file) exists
    tgt_obj,      \* (target_bucket, target_file) exists
    local_file,   \* os.path.isfile(local_file)
    pre           \* src_obj, tgt_obj, local_file when the helper was called

vars == <<fn, pc, source_flag, key_flag, target_flag, upload_flag, delete_flag,
          attempt, up_attempt, result, response, calls, log,
          src_obj, tgt_obj, local_file, pre>>

----------------------------------------------------------------------------
(* Results, exceptions, truth values *)

Ret(v, l) == [exc |-> "none", val |-> v, log |-> l]

Raise(e, l) == [exc |-> e, val |-> "None", log |-> l]

NoResult == [exc |-> "none", val |-> "-"]

NoResponse == [status |-> 0, key |-> FALSE]

\* isinstance(e, cls); in Python 3 IOError is an alias of OSError
IsInstance(e, cls) ==
    \/ e = cls
    \/ e /= "none" /\ cls = "Exception"
    \/ e \in {"IOError", "OSError"} /\ cls \in {"IOError", "OSError"}

\* except (c1, c2, ...) catches e
Catches(e, classes) == \E c \in classes : IsInstance(e, c)

\* bool(v) of the values a flag can hold
Truthy(v) == v = "True"

----------------------------------------------------------------------------
(* What the SDK can answer *)

\* head_bucket, head_object, delete_object
HeadOutcomes == {"ok", "ClientError", "BotoCoreError"}

\* download_file, upload_file touch the local file too
TransferOutcomes == {"ok", "ClientError", "BotoCoreError", "OSError"}

\* the boto3 calls of sqs.py: an exception, or a response with a status and
\* with or without the key the helper looks up
SqsOutcomes ==
    [exc : {"ClientError", "BotoCoreError"}, status : {0}, key : {FALSE}]
        \cup [exc : {"none"}, status : {200, 500}, key : BOOLEAN]

\* the object an S3 call is about
Obj(arg) == IF arg = "source" THEN src_obj ELSE tgt_obj

\* a HEAD of a missing object, a download of a missing object and an upload
\* of a missing local file cannot succeed
Possible(op, arg, o) ==
    o = "ok" =>
        /\ op = "head_object" => Obj(arg)
        /\ op = "download_file" => src_obj
        /\ op = "upload_file" => local_file

\* one entry of calls: att, end describe the attempt of the retry-wrapped
\* function wfn the call belongs to (att = 0: not retry-wrapped; end = "": the
\* attempt goes on after this call), outer is s3_move's attempt
Call(op, arg, o, wfn, att, outer, end) ==
    [op |-> op, arg |-> arg, out |-> o, fn |-> wfn, att |-> att,
     outer |-> outer, end |-> end]

----------------------------------------------------------------------------
(* filesystem.py: the functions, as results of the SDK outcome they meet *)

remove_return_value(r) ==
    IF r.exc = "none" THEN Ret("None", r.log) ELSE r

bucket_access(o) ==
    IF Catches(o, {"ClientError"}) THEN Ret("False", <<"critical">>)
    ELSE IF o = "ok" THEN Ret("True", <<"debug">>)
    ELSE Raise(o, <<>>)

s3_bucket_access(o) == remove_return_value(bucket_access(o))

\* key_access without its except ClientError clause
key_access_uncaught(o) ==
    IF o = "ok" THEN Ret("True", <<"debug">>) ELSE Raise(o, <<>>)

key_access(o) ==
    IF Catches(o, {"ClientError"}) THEN Ret("False", <<"critical">>)
    ELSE IF o = "ok" THEN Ret("True", <<"debug">>)
    ELSE Raise(o, <<>>)

s3_key_access(o) == remove_return_value(key_access(o))

\* if source_flag and key_flag:
download_guard(sf, kf) == Truthy(sf) /\ Truthy(kf)

\* the guarded part of download: download_file met o, then os.path.isfile
download_body(o, isfile) ==
    IF Catches(o, {"ClientError"})
    THEN Ret("False", <<"debug", "critical">>
                        \o (IF isfile THEN <<>> ELSE <<"critical">>))
    ELSE IF o = "ok"
    THEN IF isfile THEN Ret("True", <<"debug", "debug">>)
         ELSE Ret("False", <<"debug", "debug", "critical">>)
    ELSE Raise(o, <<"debug">>)

\* the body of s3_download
s3_download_body(o, isfile) ==
    IF Catches(o, {"BotoCoreError"}) THEN Raise("BotoCoreError", <<"critical">>)
    ELSE IF o /= "ok" THEN Raise(o, <<>>)
    ELSE IF ~isfile THEN Raise("IOError", <<"critical">>)
    ELSE Ret("None", <<>>)

upload(o) ==
    IF Catches(o, {"ClientError"}) THEN Ret("False", <<"critical">>)
    ELSE IF Catches(o, {"OSError"}) THEN Ret("False", <<"critical">>)
    ELSE IF o = "ok" THEN Ret("True", <<>>)
    ELSE Raise(o, <<>>)

\* the body of s3_upload
s3_upload_body(o) ==
    IF Catches(o, {"BotoCoreError"}) THEN Raise("BotoCoreError", <<"critical">>)
    ELSE IF Catches(o, {"OSError"}) THEN Raise("OSError", <<"critical">>)
    ELSE IF o = "ok" THEN Ret("None", <<>>)
    ELSE Raise(o, <<>>)

\* the condition of move without key_flag
move_guard_nokey(sf, kf, tf) == Truthy(sf) /\ Truthy(tf)

\* if source_flag and key_flag and target_flag:
move_guard(sf, kf, tf) == Truthy(sf) /\ Truthy(kf) /\ Truthy(tf)

\* if upload_flag and key_flag:
move_core_guard(uf, kf) == Truthy(uf) /\ Truthy(kf)

\* delete_object in move_core met d: the value of delete_flag
move_core_delete(d) ==
    IF Catches(d, {"ClientError"}) THEN Ret("False", <<"error", "error">>)
    ELSE IF d = "ok" THEN Ret("True", <<>>)
    ELSE Raise(d, <<>>)

\* if upload_flag and key_flag and delete_flag:
move_success(uf, kf, df) ==
    IF Truthy(uf) /\ Truthy(kf) /\ Truthy(df) THEN "True" ELSE "False"

\* move, after move_core returned ms: abort and the record logged
move_abort(ms) ==
    IF ~Truthy(ms) THEN Ret("True", <<"error">>) ELSE Ret("False", <<"info">>)

----------------------------------------------------------------------------
(* tenacity: @retry(retry_if_exception_type(cls), stop=stop_after_attempt(n)) *)

DownloadAttempts == 3

UploadAttempts == 2

MoveAttempts == 3

retry_if_exception_type(cls, r) == r.exc /= "none" /\ IsInstance(r.exc, cls)

\* a stop condition that allows one attempt more
stop_after_attempt_late(n, att) == att > n

stop_after_attempt(n, att) == att >= n

\* What the wrapper does with the result r of attempt att: hand it to the
\* caller unchanged when the retry condition does not hold, raise RetryError
\* when the stop condition holds (reraise is not set), else call again.
retry(cls, n, att, r) ==
    IF ~retry_if_exception_type(cls, r) THEN "pass"
    ELSE IF stop_after_attempt(n, att) THEN "RetryError"
    ELSE "again"

----------------------------------------------------------------------------
(* sqs.py: the functions, as results of the SDK outcome they meet *)

\* botocore's ClientError is built from (error_response, operation_name);
\* sqs.py raises it as ClientError('text') (nargs = 1) and as the bare class
\* ClientError (nargs = 0), and building it with fewer than two arguments
\* raises TypeError in place of the ClientError
new_ClientError(nargs) == IF nargs = 2 THEN "ClientError" ELSE "TypeError"

get_queue(o) ==
    IF Catches(o.exc, {"Exception"})
    THEN Raise(new_ClientError(1), <<"debug", "error">>)
    ELSE IF o.status /= 200 THEN Raise(new_ClientError(1), <<"debug", "debug">>)
    ELSE IF ~o.key THEN Raise(new_ClientError(1), <<"debug", "debug">>)
    ELSE Ret("QueueUrl", <<"debug", "debug", "info">>)

send_message(o) ==
    IF Catches(o.exc, {"Exception"})
    THEN Raise(new_ClientError(1), <<"debug", "error">>)
    ELSE IF o.status /= 200 THEN Raise(new_ClientError(1), <<"debug", "debug">>)
    ELSE IF ~o.key THEN Raise(new_ClientError(1), <<"debug", "debug">>)
    ELSE Ret("response", <<"debug", "debug">>)

get_msg(o) ==
    IF Catches(o.exc, {"ClientError"})
    THEN Raise(new_ClientError(0), <<"debug", "error">>)
    ELSE IF o.exc /= "none" THEN Raise(o.exc, <<"debug">>)
    ELSE IF o.status /= 200
    THEN Raise(new_ClientError(0), <<"debug", "debug", "error">>)
    ELSE Ret("response", <<"debug", "debug">>)

del_message(o) ==
    IF Catches(o.exc, {"ClientError"}) THEN Raise(new_ClientError(0), <<"debug">>)
    ELSE IF o.exc /= "none" THEN Raise(o.exc, <<"debug">>)
    ELSE IF o.status /= 200
    THEN Raise(new_ClientError(1), <<"debug", "debug", "error">>)
    ELSE Ret("None", <<"debug", "debug", "debug">>)

purge_sqs(o) ==
    IF Catches(o.exc, {"ClientError"}) THEN Ret("' '", <<"debug", "error">>)
    ELSE IF o.exc /= "none" THEN Raise(o.exc, <<"debug">>)
    ELSE IF o.status /= 200 THEN Raise(new_ClientError(1), <<"debug">>)
    ELSE Ret("response", <<"debug", "debug">>)

----------------------------------------------------------------------------
(* s3_move: the three try blocks of its body *)

\* try: s3_upload(...) except (BotoCoreError, ClientError, OSError): raiser;
\* w is what the retry wrapper of s3_upload handed back
s3_move_upload(w) ==
    IF w.exc = "none" THEN Ret("None", <<>>)
    ELSE IF Catches(w.exc, {"BotoCoreError", "ClientError", "OSError"})
    THEN Raise("IOError", <<>>)
    ELSE w

\* try: s3_key_access(...) except (BotoCoreError, ClientError): raiser
\* else: logger.debug
s3_move_verify(o) ==
    LET r == s3_key_access(o)
    IN  IF r.exc = "none" THEN Ret("None", r.log \o <<"debug">>)
        ELSE IF Catches(r.exc, {"BotoCoreError", "ClientError"})
        THEN Raise("IOError", r.log)
        ELSE r

\* try: delete_object(...) except (ClientError, BotoCoreError): raiser
s3_move_delete(d) ==
    IF d = "ok" THEN Ret("None", <<>>)
    ELSE IF Catches(d, {"ClientError", "BotoCoreError"}) THEN Raise("IOError", <<>>)
    ELSE Raise(d, <<>>)

----------------------------------------------------------------------------
(* The client *)

S3Functions ==
    {"bucket_access", "s3_bucket_access", "key_access", "s3_key_access",
     "download", "s3_download", "upload", "s3_upload",
     "move", "move_core", "s3_move"}

SqsFunctions == {"get_queue", "send_message", "get_msg", "del_message", "purge_sqs"}

Functions == S3Functions \cup SqsFunctions

\* the first SDK call of each helper
Entry(f) ==
    CASE f \in {"bucket_access", "s3_bucket_access"} -> "head_bucket"
      [] f \in {"key_access", "s3_key_access"} -> "head_object"
      [] f = "download" -> "d_bucket"
      [] f = "s3_download" -> "s3d_try"
      [] f = "upload" -> "u_file"
      [] f = "s3_upload" -> "s3u_try"
      [] f = "move" -> "m_src"
      [] f = "move_core" -> "mc_upload"
      [] f = "s3_move" -> "sm_upload"
      [] OTHER -> "sqs_call"

Init ==
    /\ fn = "idle"
    /\ pc = "idle"
    /\ source_flag = "unset"
    /\ key_flag = "unset"
    /\ target_flag = "unset"
    /\ upload_flag = "unset"
    /\ delete_flag = "unset"
    /\ attempt = 1
    /\ up_attempt = 1
    /\ result = NoResult
    /\ response = NoResponse
    /\ calls = <<>>
    /\ log = <<>>
    /\ src_obj = TRUE
    /\ tgt_obj = FALSE
    /\ local_file \in BOOLEAN
    /\ pre = <<src_obj, tgt_obj, local_file>>

flags == <<source_flag, key_flag, target_flag, upload_flag, delete_flag>>

store == <<src_obj, tgt_obj, local_file>>

\* the helper has ended: r reaches the caller
Done(r) ==
    /\ pc' = "done"
    /\ result' = [exc |-> r.exc, val |-> r.val]

\* the client calls helper f
Invoke ==
    /\ fn = "idle"
    /\ \E f \in Functions :
        /\ fn' = f
        /\ pc' = Entry(f)
    /\ pre' = store
    /\ UNCHANGED <<flags, attempt, up_attempt, result, response, calls, log, store>>

\* the client has taken the result
Return ==
    /\ pc = "done"
    /\ fn' = "idle"
    /\ pc' = "idle"
    /\ source_flag' = "unset"
    /\ key_flag' = "unset"
    /\ target_flag' = "unset"
    /\ upload_flag' = "unset"
    /\ delete_flag' = "unset"
    /\ attempt' = 1
    /\ up_attempt' = 1
    /\ result' = NoResult
    /\ response' = NoResponse
    /\ calls' = <<>>
    /\ log' = <<>>
    /\ pre' = store
    /\ UNCHANGED store

----------------------------------------------------------------------------
(* bucket_access, s3_bucket_access, key_access, s3_key_access *)

BucketAccessCall ==
    /\ fn \in {"bucket_access", "s3_bucket_access"}
    /\ pc = "head_bucket"
    /\ \E o \in HeadOutcomes :
        LET r == IF fn = "bucket_access" THEN bucket_access(o)
                 ELSE s3_bucket_access(o)
        IN  /\ calls' = Append(calls, Call("head_bucket", "source", o, fn, 0, 0, r.exc))
            /\ log' = log \o r.log
            /\ Done(r)
    /\ UNCHANGED <<fn, flags, attempt, up_attempt, response, store, pre>>

KeyAccessCall ==
    /\ fn \in {"key_access", "s3_key_access"}
    /\ pc = "head_object"
    /\ \E o \in HeadOutcomes :
        LET r == IF fn = "key_access" THEN key_access(o) ELSE s3_key_access(o)
        IN  /\ Possible("head_object", "source", o)
            /\ calls' = Append(calls, Call("head_object", "source", o, fn, 0, 0, r.exc))
            /\ log' = log \o r.log
            /\ Done(r)
    /\ UNCHANGED <<fn, flags, attempt, up_attempt, response, store, pre>>

----------------------------------------------------------------------------
(* download *)

DownloadBucket ==
    /\ fn = "download"
    /\ pc = "d_bucket"
    /\ \E o \in HeadOutcomes :
        LET r == bucket_access(o)
        IN  /\ calls' = Append(calls, Call("head_bucket", "source", o, fn, 0, 0,
                                           IF r.exc = "none" THEN "" ELSE r.exc))
            /\ log' = log \o r.log
            /\ IF r.exc /= "none"
               THEN Done(r) /\ UNCHANGED source_flag
               ELSE /\ source_flag' = r.val
                    /\ pc' = "d_key"
                    /\ UNCHANGED result
    /\ UNCHANGED <<fn, key_flag, target_flag, upload_flag, delete_flag,
                   attempt, up_attempt, response, store, pre>>

DownloadKey ==
    /\ fn = "download"
    /\ pc = "d_key"
    /\ \E o \in HeadOutcomes :
        LET r == key_access(o)
            go == r.exc = "none" /\ download_guard(source_flag, r.val)
        IN  /\ Possible("head_object", "source", o)
            /\ calls' = Append(calls, Call("head_object", "source", o, fn, 0, 0,
                                           IF go THEN ""
                                           ELSE r.exc))
            /\ IF r.exc /= "none"
               THEN Done(r) /\ log' = log \o r.log /\ UNCHANGED key_flag
               ELSE IF go
               THEN /\ key_flag' = r.val
                    /\ pc' = "d_file"
                    /\ log' = log \o r.log
                    /\ UNCHANGED result
               ELSE /\ key_flag' = r.val
                    /\ log' = log \o r.log \o <<"error">>
                    /\ Done(Ret("False", <<>>))
    /\ UNCHANGED <<fn, source_flag, target_flag, upload_flag, delete_flag,
                   attempt, up_attempt, response, store, pre>>

DownloadFile ==
    /\ fn = "download"
    /\ pc = "d_file"
    /\ \E o \in TransferOutcomes, saved \in BOOLEAN :
        /\ Possible("download_file", "source", o)
        /\ local_file' = (local_file \/ (o = "ok" /\ saved))
        /\ LET r == download_body(o, local_file')
           IN  /\ calls' = Append(calls, Call("download_file", "source", o, fn, 0, 0, r.exc))
               /\ log' = log \o r.log
               /\ Done(r)
    /\ UNCHANGED <<fn, flags, attempt, up_attempt, response, src_obj, tgt_obj, pre>>

----------------------------------------------------------------------------
(* s3_download: one attempt of the retry wrapper *)

S3DownloadAttempt ==
    /\ fn = "s3_download"
    /\ pc = "s3d_try"
    /\ \E o \in TransferOutcomes, saved \in BOOLEAN :
        /\ Possible("download_file", "source", o)
        /\ local_file' = (local_file \/ (o = "ok" /\ saved))
        /\ LET r == s3_download_body(o, local_file')
               d == retry("IOError", DownloadAttempts, attempt, r)
           IN  /\ calls' = Append(calls, Call("download_file", "source", o, fn,
                                              attempt, 0, r.exc))
               /\ log' = log \o r.log
               /\ CASE d = "pass" -> Done(r) /\ UNCHANGED attempt
                    [] d = "RetryError" ->
                         Done(Raise("RetryError", <<>>)) /\ UNCHANGED attempt
                    [] d = "again" ->
                         /\ attempt' = attempt + 1
                         /\ UNCHANGED <<pc, result>>
    /\ UNCHANGED <<fn, flags, up_attempt, response, src_obj, tgt_obj, pre>>

----------------------------------------------------------------------------
(* upload, s3_upload *)

UploadFile ==
    /\ fn = "upload"
    /\ pc = "u_file"
    /\ \E o \in TransferOutcomes :
        LET r == upload(o)
        IN  /\ Possible("upload_file", "target", o)
            /\ tgt_obj' = (tgt_obj \/ o = "ok")
            /\ calls' = Append(calls, Call("upload_file", "target", o, fn, 0, 0, r.exc))
            /\ log' = log \o r.log
            /\ Done(r)
    /\ UNCHANGED <<fn, flags, attempt, up_attempt, response, src_obj, local_file, pre>>

S3UploadAttempt ==
    /\ fn = "s3_upload"
    /\ pc = "s3u_try"
    /\ \E o \in TransferOutcomes :
        LET r == s3_upload_body(o)
            d == retry("OSError", UploadAttempts, up_attempt, r)
        IN  /\ Possible("upload_file", "target", o)
            /\ tgt_obj' = (tgt_obj \/ o = "ok")
            /\ calls' = Append(calls, Call("upload_file", "target", o, "s3_upload",
                                           up_attempt, 0, r.exc))
            /\ log' = log \o r.log
            /\ CASE d = "pass" -> Done(r) /\ UNCHANGED up_attempt
                 [] d = "RetryError" ->
                      Done(Raise("RetryError", <<>>)) /\ UNCHANGED up_attempt
                 [] d = "again" ->
                      /\ up_attempt' = up_attempt + 1
                      /\ UNCHANGED <<pc, result>>
    /\ UNCHANGED <<fn, flags, attempt, response, src_obj, local_file, pre>>

----------------------------------------------------------------------------
(* move and move_core *)

MoveSourceBucket ==
    /\ fn = "move"
    /\ pc = "m_src"
    /\ \E o \in HeadOutcomes :
        LET r == bucket_access(o)
        IN  /\ calls' = Append(calls, Call("head_bucket", "source", o, fn, 0, 0,
                                           IF r.exc = "none" THEN "" ELSE r.exc))
            /\ log' = log \o r.log
            /\ IF r.exc /= "none"
               THEN Done(r) /\ UNCHANGED source_flag
               ELSE /\ source_flag' = r.val
                    /\ pc' = "m_key"
                    /\ UNCHANGED result
    /\ UNCHANGED <<fn, key_flag, target_flag, upload_flag, delete_flag,
                   attempt, up_attempt, response, store, pre>>

MoveKey ==
    /\ fn = "move"
    /\ pc = "m_key"
    /\ \E o \in HeadOutcomes :
        LET r == key_access(o)
        IN  /\ Possible("head_object", "source", o)
            /\ calls' = Append(calls, Call("head_object", "source", o, fn, 0, 0,
                                           IF r.exc = "none" THEN "" ELSE r.exc))
            /\ log' = log \o r.log
            /\ IF r.exc /= "none"
               THEN Done(r) /\ UNCHANGED key_flag
               ELSE /\ key_flag' = r.val
                    /\ pc' = "m_tgt"
                    /\ UNCHANGED result
    /\ UNCHANGED <<fn, source_flag, target_flag, upload_flag, delete_flag,
                   attempt, up_attempt, response, store, pre>>

MoveTargetBucket ==
    /\ fn = "move"
    /\ pc = "m_tgt"
    /\ \E o \in HeadOutcomes :
        LET r == bucket_access(o)
            go == r.exc = "none" /\ move_guard(source_flag, key_flag, r.val)
        IN  /\ calls' = Append(calls, Call("head_bucket", "target", o, fn, 0, 0,
                                           IF go THEN "" ELSE r.exc))
            /\ IF r.exc /= "none"
               THEN Done(r) /\ log' = log \o r.log /\ UNCHANGED target_flag
               ELSE IF go
               THEN /\ target_flag' = r.val
                    /\ pc' = "mc_upload"
                    /\ log' = log \o r.log
                    /\ UNCHANGED result
               ELSE /\ target_flag' = r.val
                    /\ log' = log \o r.log \o <<"error">>
                    /\ Done(Ret("True", <<>>))
    /\ UNCHANGED <<fn, source_flag, key_flag, upload_flag, delete_flag,
                   attempt, up_attempt, response, store, pre>>

\* move_core up to the return of upload
MoveCoreUpload ==
    /\ fn \in {"move", "move_core"}
    /\ pc = "mc_upload"
    /\ delete_flag' = "False"
    /\ \E o \in TransferOutcomes :
        LET r == upload(o)
        IN  /\ Possible("upload_file", "target", o)
            /\ tgt_obj' = (tgt_obj \/ o = "ok")
            /\ calls' = Append(calls, Call("upload_file", "target", o, fn, 0, 0,
                                           IF r.exc = "none" THEN "" ELSE r.exc))
            /\ log' = log \o r.log
            /\ IF r.exc /= "none"
               THEN Done(r) /\ UNCHANGED upload_flag
               ELSE /\ upload_flag' = r.val
                    /\ pc' = "mc_verify"
                    /\ UNCHANGED result
    /\ UNCHANGED <<fn, source_flag, key_flag, target_flag,
                   attempt, up_attempt, response, src_obj, local_file, pre>>

\* move_core from s3_key_access to its return, and the rest of move
MoveCoreVerify ==
    /\ fn \in {"move", "move_core"}
    /\ pc = "mc_verify"
    /\ \E o \in HeadOutcomes, d \in HeadOutcomes :
        LET r == s3_key_access(o)
            del == r.exc = "none" /\ move_core_guard(upload_flag, r.val)
            dr == IF del THEN move_core_delete(d) ELSE Ret(delete_flag, <<>>)
            ms == move_success(upload_flag, r.val, dr.val)
            ret == IF fn = "move_core" THEN Ret(ms, <<>>) ELSE move_abort(ms)
            head == Call("head_object", "target", o, fn, 0, 0,
                         IF del THEN "" ELSE IF r.exc = "none" THEN ret.exc ELSE r.exc)
        IN  /\ Possible("head_object", "target", o)
            /\ IF r.exc /= "none"
               THEN /\ calls' = Append(calls, head)
                    /\ log' = log \o r.log
                    /\ Done(r)
                    /\ UNCHANGED <<key_flag, delete_flag, src_obj>>
               ELSE IF del
               THEN /\ calls' = calls \o <<head, Call("delete_object", "source", d, fn,
                                                      0, 0, dr.exc)>>
                    /\ src_obj' = (src_obj /\ d /= "ok")
                    /\ key_flag' = r.val
                    /\ IF dr.exc /= "none"
                       THEN /\ log' = log \o r.log \o <<"debug">> \o dr.log
                            /\ Done(dr)
                            /\ UNCHANGED delete_flag
                       ELSE /\ delete_flag' = dr.val
                            /\ log' = log \o r.log \o <<"debug">> \o dr.log \o ret.log
                            /\ Done(ret)
               ELSE /\ calls' = Append(calls, head)
                    /\ key_flag' = r.val
                    /\ log' = log \o r.log \o ret.log
                    /\ Done(ret)
                    /\ UNCHANGED <<delete_flag, src_obj>>
    /\ UNCHANGED <<fn, source_flag, target_flag, upload_flag,
                   attempt, up_attempt, response, tgt_obj, local_file, pre>>

----------------------------------------------------------------------------
(* s3_move: the retry wrapper around upload, verify, delete *)

\* the body of s3_move ended attempt `attempt` by raising b
MoveRetry(b) ==
    LET m == retry("IOError", MoveAttempts, attempt, b)
    IN  CASE m = "pass" -> Done(b) /\ UNCHANGED <<attempt, up_attempt>>
          [] m = "RetryError" ->
               Done(Raise("RetryError", <<>>)) /\ UNCHANGED <<attempt, up_attempt>>
          [] m = "again" ->
               /\ attempt' = attempt + 1
               /\ up_attempt' = 1
               /\ pc' = "sm_upload"
               /\ UNCHANGED result

S3MoveUpload ==
    /\ fn = "s3_move"
    /\ pc = "sm_upload"
    /\ \E o \in TransferOutcomes :
        LET r == s3_upload_body(o)
            d == retry("OSError", UploadAttempts, up_attempt, r)
            w == IF d = "pass" THEN r ELSE Raise("RetryError", <<>>)
            b == s3_move_upload(w)
        IN  /\ Possible("upload_file", "target", o)
            /\ tgt_obj' = (tgt_obj \/ o = "ok")
            /\ calls' = Append(calls, Call("upload_file", "target", o, "s3_upload",
                                           up_attempt, attempt, r.exc))
            /\ log' = log \o r.log
            /\ IF d = "again"
               THEN /\ up_attempt' = up_attempt + 1
                    /\ UNCHANGED <<pc, result, attempt>>
               ELSE IF b.exc = "none"
               THEN /\ pc' = "sm_verify"
                    /\ UNCHANGED <<result, attempt, up_attempt>>
               ELSE MoveRetry(b)
    /\ UNCHANGED <<fn, flags, response, src_obj, local_file, pre>>

S3MoveVerify ==
    /\ fn = "s3_move"
    /\ pc = "sm_verify"
    /\ \E o \in HeadOutcomes :
        LET b == s3_move_verify(o)
        IN  /\ Possible("head_object", "target", o)
            /\ calls' = Append(calls, Call("head_object", "target", o, fn, attempt,
                                           attempt, IF b.exc = "none" THEN "" ELSE b.exc))
            /\ log' = log \o b.log
            /\ IF b.exc = "none"
               THEN /\ pc' = "sm_delete"
                    /\ UNCHANGED <<result, attempt, up_attempt>>
               ELSE MoveRetry(b)
    /\ UNCHANGED <<fn, flags, response, store, pre>>

S3MoveDelete ==
    /\ fn = "s3_move"
    /\ pc = "sm_delete"
    /\ \E d \in HeadOutcomes :
        LET b == s3_move_delete(d)
        IN  /\ src_obj' = (src_obj /\ d /= "ok")
            /\ calls' = Append(calls, Call("delete_object", "source", d, fn, attempt,
                                           attempt, b.exc))
            /\ log' = log \o b.log
            /\ IF b.exc = "none"
               THEN Done(b) /\ UNCHANGED <<attempt, up_attempt>>
               ELSE MoveRetry(b)
    /\ UNCHANGED <<fn, flags, response, tgt_obj, local_file, pre>>

----------------------------------------------------------------------------
(* sqs.py: each helper makes its one SDK call *)

\* the response the call left in the helper's local, if it returned one
Response(o) ==
    IF o.exc = "none" THEN [status |-> o.status, key |-> o.key] ELSE NoResponse

SqsOp(f) ==
    CASE f = "get_queue" -> "get_queue_url"
      [] f = "send_message" -> "send_message_batch"
      [] f = "get_msg" -> "receive_message"
      [] f = "del_message" -> "delete_message"
      [] f = "purge_sqs" -> "purge_queue"

\* the call is made, its outcome o is kept, and r reaches the caller
SqsStep(f, r, o) ==
    /\ response' = Response(o)
    /\ calls' = Append(calls, Call(SqsOp(f), "queue",
                                   IF o.exc = "none" THEN "ok" ELSE o.exc,
                                   f, 0, 0, r.exc))
    /\ log' = log \o r.log
    /\ Done(r)

GetQueue ==
    /\ fn = "get_queue"
    /\ pc = "sqs_call"
    /\ \E o \in SqsOutcomes : SqsStep(fn, get_queue(o), o)
    /\ UNCHANGED <<fn, flags, attempt, up_attempt, store, pre>>

SendMessage ==
    /\ fn = "send_message"
    /\ pc = "sqs_call"
    /\ \E o \in SqsOutcomes : SqsStep(fn, send_message(o), o)
    /\ UNCHANGED <<fn, flags, attempt, up_attempt, store, pre>>

GetMsg ==
    /\ fn = "get_msg"
    /\ pc = "sqs_call"
    /\ \E o \in SqsOutcomes : SqsStep(fn, get_msg(o), o)
    /\ UNCHANGED <<fn, flags, attempt, up_attempt, store, pre>>

DelMessage ==
    /\ fn = "del_message"
    /\ pc = "sqs_call"
    /\ \E o \in SqsOutcomes : SqsStep(fn, del_message(o), o)
    /\ UNCHANGED <<fn, flags, attempt, up_attempt, store, pre>>

PurgeSqs ==
    /\ fn = "purge_sqs"
    /\ pc = "sqs_call"
    /\ \E o \in SqsOutcomes : SqsStep(fn, purge_sqs(o), o)
    /\ UNCHANGED <<fn, flags, attempt, up_attempt, store, pre>>


----------------------------------------------------------------------------

Next ==
    \/ Invoke
    \/ Return
    \/ BucketAccessCall
    \/ KeyAccessCall
    \/ DownloadBucket
    \/ DownloadKey
    \/ DownloadFile
    \/ S3DownloadAttempt
    \/ UploadFile
    \/ S3UploadAttempt
    \/ MoveSourceBucket
    \/ MoveKey
    \/ MoveTargetBucket
    \/ MoveCoreUpload
    \/ MoveCoreVerify
    \/ S3MoveUpload
    \/ S3MoveVerify
    \/ S3MoveDelete
    \/ GetQueue
    \/ SendMessage
    \/ GetMsg
    \/ DelMessage
    \/ PurgeSqs

Spec == Init /\ [][Next]_vars

----------------------------------------------------------------------------
(* Properties *)

Indices == 1 .. Len(calls)

Ended == pc = "done"

Last == calls[Len(calls)]

\* C1: in s3_move, delete_object on the source is called only after
\* head_object on the uploaded target key succeeded in the same attempt: an
\* attempt whose head_object raised ClientError makes no delete_object call.
C1_DeleteOnlyAfterVerified ==
    fn = "s3_move" =>
        \A i \in Indices :
            calls[i].op = "delete_object" =>
                /\ i > 1
                /\ calls[i - 1].op = "head_object"
                /\ calls[i - 1].arg = "target"
                /\ calls[i - 1].outer = calls[i].outer
                /\ calls[i - 1].out = "ok"

\* C2: s3_bucket_access / s3_key_access do not return normally when
\* head_bucket / head_object raised ClientError.
C2_NoneMeansSuccess ==
    (fn \in {"s3_bucket_access", "s3_key_access"} /\ Ended
        /\ calls[1].out = "ClientError")
    => result.exc /= "none"

\* every step of move_core that was made succeeded, up to "delete_object
\* raised no ClientError"
MoveCoreStepsOk(first) ==
    /\ Len(calls) >= first + 1
    /\ calls[first].op = "upload_file" /\ calls[first].out = "ok"
    /\ calls[first + 1].op = "head_object" /\ calls[first + 1].out = "ok"
    /\ \A i \in Indices : calls[i].op = "delete_object" => calls[i].out /= "ClientError"

MoveChecksOk ==
    /\ Len(calls) >= 3
    /\ \A i \in 1 .. 3 : calls[i].out = "ok"

\* C3: move_core returns True exactly when the upload succeeded, the target
\* key is accessible and delete_object raised no ClientError; move returns
\* abort = False exactly when its three checks passed and move_core returned
\* True, and abort = True otherwise.
C3_MoveAbortIffFailure ==
    /\ (fn = "move_core" /\ Ended /\ result.exc = "none")
        => (result.val = "True" <=> MoveCoreStepsOk(1))
    /\ (fn = "move" /\ Ended /\ result.exc = "none")
        => /\ result.val \in {"True", "False"}
           /\ result.val = "False" <=> (MoveChecksOk /\ MoveCoreStepsOk(4))

Deprecated == {"bucket_access", "key_access", "download", "upload", "move_core", "move"}

\* C4: a deprecated function never lets a ClientError reach its caller, and
\* when every SDK call it made either succeeded or raised ClientError it
\* returns a boolean.
C4_DeprecatedReturnBoolean ==
    (fn \in Deprecated /\ Ended) =>
        /\ result.exc /= "ClientError"
        /\ (\A i \in Indices : calls[i].out \in {"ok", "ClientError"})
            => (result.exc = "none" /\ result.val \in {"True", "False"})

\* download met a ClientError in download_file and returned False
C4_Witness ==
    /\ fn = "download" /\ Ended
    /\ Len(calls) = 3
    /\ calls[3].op = "download_file" /\ calls[3].out = "ClientError"
    /\ result = [exc |-> "none", val |-> "False"]

C6_MoveRetriesOnAnyFailure ==
    (fn = "s3_move" /\ Ended) =>
        /\ result.exc = "none" =>
            /\ Len(calls) >= 3
            /\ \A i \in (Len(calls) - 2) .. Len(calls) :
                calls[i].out = "ok" /\ calls[i].outer = attempt
        /\ result.exc /= "none" => attempt = 3

\* C7: when s3_download, s3_upload or s3_move fails, the caller gets the
\* exception raised in the function body: the one the last attempt ended
\* in for s3_download / s3_upload, the IOError of raiser for s3_move.
C7_ErrorsReraised ==
    (fn \in {"s3_download", "s3_upload", "s3_move"} /\ Ended
        /\ result.exc /= "none")
    => IF fn = "s3_move" THEN result.exc = "IOError"
       ELSE result.exc = Last.end

SyncQueueHelpers == {"get_queue", "send_message", "get_msg", "del_message"}

\* the SDK call raised nothing, answered 200 and, where the helper looks one
\* up, the response holds the key
GoodResponse ==
    /\ calls[1].out = "ok"
    /\ response.status = 200
    /\ fn \in {"get_queue", "send_message"} => response.key

\* C8: a synchronous queue helper returns normally exactly on a good
\* response (get_queue the URL, send_message the response) and raises
\* ClientError in every other case.
C8_QueueHelpers ==
    (fn \in SyncQueueHelpers /\ Ended) =>
        /\ result.exc = "none" <=> GoodResponse
        /\ ~GoodResponse => result.exc = "ClientError"
        /\ (GoodResponse /\ fn = "get_queue") => result.val = "QueueUrl"
        /\ (GoodResponse /\ fn = "send_message") => result.val = "response"

\* C9: purge_sqs calls purge_queue exactly once; on ClientError it logs the
\* error and returns ' ', on status 200 it returns the response, on another
\* status it raises ClientError.
C9_PurgeSingleCall ==
    (fn = "purge_sqs" /\ Ended) =>
        /\ Len(calls) = 1
        /\ calls[1].op = "purge_queue"
        /\ calls[1].out = "ClientError"
            => /\ result = [exc |-> "none", val |-> "' '"]
               /\ \E j \in 1 .. Len(log) : log[j] = "error"
        /\ (calls[1].out = "ok" /\ response.status = 200)
            => result = [exc |-> "none", val |-> "response"]
        /\ (calls[1].out = "ok" /\ response.status /= 200)
            => result.exc = "ClientError"

Effects == {"download_file", "upload_file", "delete_object"}

\* the k checks that open download (k = 2) or move (k = 3) all returned True
ChecksPassed(k) ==
    /\ Len(calls) >= k
    /\ \A i \in 1 .. k :
        /\ calls[i].op \in {"head_bucket", "head_object"}
        /\ calls[i].out = "ok"

\* C10: download calls download_file only after bucket_access and key_access
\* returned True, move calls upload_file / delete_object only after its
\* three checks returned True; when a check fails no such call is made and
\* the objects and the local file are as they were.
C10_ChecksGate ==
    /\ fn = "download" =>
        \A i \in Indices : calls[i].op \in Effects
            => (i > 2 /\ ChecksPassed(2)
                /\ source_flag = "True" /\ key_flag = "True")
    /\ fn = "move" =>
        \A i \in Indices : calls[i].op \in Effects
            => (i > 3 /\ ChecksPassed(3) /\ source_flag = "True"
                /\ target_flag = "True")
    /\ (fn = "download" /\ Ended /\ ~ChecksPassed(2))
        => /\ \A i \in Indices : calls[i].op \notin Effects
           /\ store = pre
    /\ (fn = "move" /\ Ended /\ ~ChecksPassed(3))
        => /\ \A i \in Indices : calls[i].op \notin Effects
           /\ store = pre

\* move found the source key inaccessible and aborted after its three checks
C10_Witness ==
    /\ fn = "move" /\ Ended
    /\ Len(calls) = 3
    /\ calls[2].out = "ClientError"
    /\ result = [exc |-> "none", val |-> "True"]

====
